---- MODULE Spec2Model ----
(***************************************************************************)
(* A model of src/app.py (orcaslicer-web): the slice job orchestrator      *)
(* (slice_model, slice_status, the process-wide slice_lock and             *)
(* current_job), the bundled-profile resolver (resolve_system_profile),    *)
(* the normalization of uploaded profiles (ensure_orca_metadata) and the   *)
(* profile store (upload_profile, replace_profile, rename_profile,         *)
(* delete_profile, sanitize_profile_name).                                 *)
(*                                                                         *)
(* Request handlers run one per thread; every access to shared state       *)
(* (slice_lock, current_job, the file system) is a step of its own, so     *)
(* that TLC explores every interleaving of the handlers.                   *)
(***************************************************************************)
EXTENDS Integers, Sequences, FiniteSets, TLC

\* ------------------------------------------------------------------ bounds

\* Number of request threads that may run slice_model concurrently.
NumWorkers == 2
\* Number of request threads that may run slice_status concurrently.
NumObservers == 1
\* Number of admissions (successful acquisitions of slice_lock) explored.
MaxJobs == 2
\* Depth at which the interpreter gives up a recursion (RecursionError);
\* CPython's default is 1000, far above any chain of the modelled catalogs.
MaxDepth == 5
\* Number of request threads that may run the profile handlers concurrently.
NumClients == 2

Workers == 1..NumWorkers
Observers == 1..NumObservers
JobIds == 1..MaxJobs
Clients == 1..NumClients

\* ------------------------------------------------------- program constants

SLICE_TIMEOUT == 300

\* The length sanitize_profile_name cuts a name to (name[:100]).
MaxNameLength == 100

\* Python's None and a present value, for fields that are None when cleared.
None == << >>
Some(x) == << x >>

\* ---------------------------------------------------------------- strings
\* Strings the code inspects are sequences of one-character strings.

LowerChar(c) ==
    CASE c = "A" -> "a"
      [] c = "B" -> "b"
      [] c = "C" -> "c"
      [] c = "D" -> "d"
      [] c = "E" -> "e"
      [] c = "F" -> "f"
      [] c = "G" -> "g"
      [] c = "H" -> "h"
      [] c = "I" -> "i"
      [] c = "J" -> "j"
      [] c = "K" -> "k"
      [] c = "L" -> "l"
      [] c = "M" -> "m"
      [] c = "N" -> "n"
      [] c = "O" -> "o"
      [] c = "P" -> "p"
      [] c = "Q" -> "q"
      [] c = "R" -> "r"
      [] c = "S" -> "s"
      [] c = "T" -> "t"
      [] c = "U" -> "u"
      [] c = "V" -> "v"
      [] c = "W" -> "w"
      [] c = "X" -> "x"
      [] c = "Y" -> "y"
      [] c = "Z" -> "z"
      [] OTHER -> c

\* str.lower()
Lower(s) == [i \in 1..Len(s) |-> LowerChar(s[i])]

\* str.endswith(suffix)
EndsWith(s, suffix) ==
    /\ Len(s) >= Len(suffix)
    /\ SubSeq(s, Len(s) - Len(suffix) + 1, Len(s)) = suffix

RECURSIVE LStrip(_)
LStrip(s) == IF s # << >> /\ Head(s) = " " THEN LStrip(Tail(s)) ELSE s

RECURSIVE RStrip(_)
RStrip(s) ==
    IF s # << >> /\ s[Len(s)] = " " THEN RStrip(SubSeq(s, 1, Len(s) - 1)) ELSE s

\* str.strip()
Strip(s) == RStrip(LStrip(s))

\* model_filename.lower().endswith((".stl", ".3mf"))
HasModelExtension(filename) ==
    \/ EndsWith(Lower(filename), << ".", "s", "t", "l" >>)
    \/ EndsWith(Lower(filename), << ".", "3", "m", "f" >>)

\* --------------------------------------------------------- request inputs

\* request.files["model"]: absent, or a file with the client's filename.
ModelFiles ==
    { [present |-> FALSE, filename |-> << >>],
      [present |-> TRUE, filename |-> << >>],
      [present |-> TRUE, filename |-> << "a", ".", "S", "T", "L" >>],
      [present |-> TRUE, filename |-> << "b", ".", "3", "m", "f" >>],
      [present |-> TRUE, filename |-> << "c", ".", "t", "x", "t" >>] }

\* request.form.get(<category>, ""): an absent field reads as "".
FormNames == { << >>, << " " >>, << "p", " " >>, << "q" >> }

Categories == { "printer", "process", "filament" }

\* A request that passes every check when the store holds profile "p" in
\* each category.
BaseRequest ==
    [model |-> [present |-> TRUE, filename |-> << "a", ".", "S", "T", "L" >>],
     printer |-> << "p", " " >>, process |-> << "p", " " >>,
     filament |-> << "p", " " >>]

\* The requests explored: BaseRequest with at most one field changed, and
\* the requests that name an absent profile in two or three categories.
Requests ==
    { r \in [model : ModelFiles, printer : FormNames, process : FormNames,
             filament : FormNames] :
        \/ Cardinality({ f \in { "model", "printer", "process", "filament" } :
                            r[f] # BaseRequest[f] }) <= 1
        \/ /\ r.model = BaseRequest.model
           /\ Cardinality({ f \in { "printer", "process", "filament" } :
                               r[f] = << "q" >> }) >= 2
           /\ \A f \in { "printer", "process", "filament" } :
                 r[f] \in { << "q" >>, << "p", " " >> } }

\* The profile files under PROFILES_DIR at start.
ProfileStore ==
    { << "printer", << "p" >> >>, << "process", << "p" >> >>,
      << "filament", << "p" >> >> }

\* The *.gcode files the engine may write into the output directory.
GcodeFiles == { "x.gcode", "y.gcode" }

\* Exit codes of the engine process.
ExitCodes == { 0, 1 }

\* ------------------------------------------------------------------ state

VARIABLES
    slice_lock,    \* 0: unlocked; else locked, by the request of that job id
    current_job,   \* [busy, model, started]
    temp_dir,      \* TEMP_DIR: job id -> the state of its job directory
    profiles,      \* PROFILES_DIR: the set of <<category, name>> files
    admissions,    \* number of acquisitions so far: source of uuid4 and time
    pc,            \* slice_model: each worker's position
    req,           \* slice_model: the request being handled
    job,           \* slice_model: job_id / start_time of the worker (0: none)
    result,        \* slice_model: returncode of the completed engine process
    proc,          \* the worker's engine child process
    resp,          \* slice_model: the response (pending until pc = "done")
    releases,      \* history: slice_lock.release() calls of this request
    spc,           \* slice_status: each observer's position
    sresp,         \* slice_status: the model it has read, if any
    index,         \* _system_profile_index with the indexed files' documents
    query,         \* resolver: the last call's arguments
    resolved,      \* resolver: the last call's outcome
    norm_query,    \* ensure_orca_metadata: the last call's arguments
    normalized,    \* ensure_orca_metadata: the last call's outcome
    profile_bytes, \* PROFILES_DIR: the content of each profile file
    cpc,           \* profile handlers: each client's position
    creq,          \* profile handlers: the request being handled
    cname,         \* profile handlers: the local `name` (or `new_name`)
    cdata,         \* profile handlers: the local `data`
    cresp          \* profile handlers: the response (pending until "done")

slice_vars == << slice_lock, current_job, temp_dir, profiles, admissions,
                 pc, req, job, result, proc, resp, releases, spc, sresp >>
resolver_vars == << index, query, resolved >>
normalize_vars == << norm_query, normalized >>
\* What the slice and status handlers never touch.
client_vars == << cpc, creq, cname, cdata, cresp >>
library_vars == << resolver_vars, normalize_vars, profile_bytes, client_vars >>
\* What the profile handlers never touch.
orchestrator_vars == << slice_lock, current_job, temp_dir, admissions,
                        pc, req, job, result, proc, resp, releases, spc, sresp >>
vars == << slice_lock, current_job, temp_dir, profiles, admissions,
           pc, req, job, result, proc, resp, releases, spc, sresp,
           index, query, resolved, norm_query, normalized,
           profile_bytes, cpc, creq, cname, cdata, cresp >>

\* -------------------------------------------------------------- responses

\* No response sent yet.
Pending == [code |-> 0, kind |-> "pending"]

\* The directory tree of one job under TEMP_DIR.
NoDir == [dir |-> FALSE, output |-> FALSE, model |-> FALSE, gcode |-> {}]

\* A job directory that a failed deletion left behind. Job ids are unique, so
\* nothing reads what is left inside it: only that it is still there is kept.
Leftover == [dir |-> TRUE, output |-> FALSE, model |-> FALSE, gcode |-> {}]

\* get_profile_path(category, name).exists()
ProfileExists(category, name) == << category, name >> \in profiles

\* MissingProfiles as it would be if the checks stopped at the first absent
\* profile.
FirstMissingProfile(printer_name, process_name, filament_name) ==
    IF ~ProfileExists("printer", printer_name)
        THEN << << "printer", printer_name >> >>
    ELSE IF ~ProfileExists("process", process_name)
        THEN << << "process", process_name >> >>
    ELSE IF ~ProfileExists("filament", filament_name)
        THEN << << "filament", filament_name >> >>
    ELSE << >>

\* The `missing` list of slice_model, in the order the code appends to it.
MissingProfiles(printer_name, process_name, filament_name) ==
    (IF ProfileExists("printer", printer_name)
        THEN << >> ELSE << << "printer", printer_name >> >>)
    \o (IF ProfileExists("process", process_name)
        THEN << >> ELSE << << "process", process_name >> >>)
    \o (IF ProfileExists("filament", filament_name)
        THEN << >> ELSE << << "filament", filament_name >> >>)

\* The validation of slice_model: the error response of the first check that
\* fails, or kind "ok" when every check passes.
Validate(r) ==
    LET printer_name == Strip(r.printer)
        process_name == Strip(r.process)
        filament_name == Strip(r.filament)
        missing == MissingProfiles(printer_name, process_name, filament_name)
    IN  IF ~r.model.present
            THEN [code |-> 400, kind |-> "no_model_file"]
        ELSE IF r.model.filename = << >>
            THEN [code |-> 400, kind |-> "empty_model_filename"]
        ELSE IF ~HasModelExtension(r.model.filename)
            THEN [code |-> 400, kind |-> "bad_model_extension"]
        ELSE IF printer_name = << >> \/ process_name = << >>
                \/ filament_name = << >>
            THEN [code |-> 400, kind |-> "profile_names_required"]
        ELSE IF missing # << >>
            THEN [code |-> 404, kind |-> "profiles_not_found",
                  missing |-> missing]
        ELSE [code |-> 0, kind |-> "ok"]

\* The response of `except Exception`.
SlicingError == [code |-> 500, kind |-> "slicing_error"]

\* The response of `except subprocess.TimeoutExpired`.
TimedOut == [code |-> 504, kind |-> "timeout", seconds |-> SLICE_TIMEOUT]

\* The response to an exception that leaves slice_model (errorhandler(500)).
InternalError == [code |-> 500, kind |-> "internal_error"]

\* The busy response.
Busy == [code |-> 409, kind |-> "busy", busy |-> TRUE]

\* ------------------------------------------------------------ slice_model

\* A request arrives and is validated (no shared state is written).
SliceBegin(t) ==
    /\ pc[t] = "idle"
    /\ \E r \in Requests :
          LET v == Validate(r)
          IN  /\ req' = [req EXCEPT ![t] = r]
              /\ IF v.kind = "ok"
                    THEN /\ pc' = [pc EXCEPT ![t] = "acquire"]
                         /\ resp' = resp
                    ELSE /\ pc' = [pc EXCEPT ![t] = "done"]
                         /\ resp' = [resp EXCEPT ![t] = v]
    /\ UNCHANGED << slice_lock, current_job, temp_dir, profiles, admissions,
                    job, result, proc, releases, spc, sresp, library_vars >>

\* Acquire as it would be if the result of acquire(blocking=False) were not
\* tested: the request goes on whether or not it got the lock.
AcquireUnchecked(t) ==
    /\ pc[t] = "acquire"
    /\ admissions < MaxJobs
    /\ slice_lock' = IF slice_lock = 0 THEN admissions + 1 ELSE slice_lock
    /\ admissions' = admissions + 1
    /\ job' = [job EXCEPT ![t] = admissions + 1]
    /\ pc' = [pc EXCEPT ![t] = "set_busy"]
    /\ UNCHANGED << current_job, temp_dir, profiles, req, result, proc, resp,
                    releases, spc, sresp, library_vars >>

\* Acquire as it would be if the lock were tried inside the try block: the
\* busy return would run the finally block's reset of current_job.
AcquireBusyResets(t) ==
    /\ pc[t] = "acquire"
    /\ \/ /\ slice_lock = 0
          /\ admissions < MaxJobs
          /\ slice_lock' = admissions + 1
          /\ admissions' = admissions + 1
          /\ job' = [job EXCEPT ![t] = admissions + 1]
          /\ pc' = [pc EXCEPT ![t] = "set_busy"]
          /\ UNCHANGED << resp, current_job >>
       \/ /\ slice_lock # 0
          /\ resp' = [resp EXCEPT ![t] = Busy]
          /\ pc' = [pc EXCEPT ![t] = "done"]
          /\ current_job' = [busy |-> FALSE, model |-> None, started |-> None]
          /\ UNCHANGED << slice_lock, admissions, job >>
    /\ UNCHANGED << temp_dir, profiles, req, result, proc, releases, spc,
                    sresp, library_vars >>

\* slice_lock.acquire(blocking=False), then job_id, job_dir and start_time:
\* the number of the admission stands for the fresh uuid and for the time.
\* (Admissions beyond MaxJobs are not explored.)
Acquire(t) ==
    /\ pc[t] = "acquire"
    /\ \/ /\ slice_lock = 0
          /\ admissions < MaxJobs
          /\ slice_lock' = admissions + 1
          /\ admissions' = admissions + 1
          /\ job' = [job EXCEPT ![t] = admissions + 1]
          /\ pc' = [pc EXCEPT ![t] = "set_busy"]
          /\ resp' = resp
       \/ /\ slice_lock # 0
          /\ resp' = [resp EXCEPT ![t] = Busy]
          /\ pc' = [pc EXCEPT ![t] = "done"]
          /\ UNCHANGED << slice_lock, admissions, job >>
    /\ UNCHANGED << current_job, temp_dir, profiles, req, result, proc,
                    releases, spc, sresp, library_vars >>

\* current_job["busy"] = True
SetBusy(t) ==
    /\ pc[t] = "set_busy"
    /\ current_job' = [current_job EXCEPT !.busy = TRUE]
    /\ pc' = [pc EXCEPT ![t] = "set_model"]
    /\ UNCHANGED << slice_lock, temp_dir, profiles, admissions, req, job,
                    result, proc, resp, releases, spc, sresp, library_vars >>

\* current_job["model"] = model_filename
SetModel(t) ==
    /\ pc[t] = "set_model"
    /\ current_job' = [current_job EXCEPT !.model = Some(req[t].model.filename)]
    /\ pc' = [pc EXCEPT ![t] = "set_started"]
    /\ UNCHANGED << slice_lock, temp_dir, profiles, admissions, req, job,
                    result, proc, resp, releases, spc, sresp, library_vars >>

\* current_job["started"] = start_time
SetStarted(t) ==
    /\ pc[t] = "set_started"
    /\ current_job' = [current_job EXCEPT !.started = Some(job[t])]
    /\ pc' = [pc EXCEPT ![t] = "mkdir_job"]
    /\ UNCHANGED << slice_lock, temp_dir, profiles, admissions, req, job,
                    result, proc, resp, releases, spc, sresp, library_vars >>

\* One provisioning call on the job directory: it succeeds, changing the
\* directory to `after` and going on at `next`, or raises OSError, which
\* `except Exception` turns into the slicing-error response.
Provision(t, at, after, next) ==
    /\ pc[t] = at
    /\ \/ /\ temp_dir' = [temp_dir EXCEPT ![job[t]] = after]
          /\ pc' = [pc EXCEPT ![t] = next]
          /\ resp' = resp
       \/ /\ resp' = [resp EXCEPT ![t] = SlicingError]
          /\ pc' = [pc EXCEPT ![t] = "clear_busy"]
          /\ temp_dir' = temp_dir
    /\ UNCHANGED << slice_lock, current_job, profiles, admissions, req, job,
                    result, proc, releases, spc, sresp, library_vars >>

\* job_dir.mkdir(parents=True, exist_ok=True)
MkdirJob(t) ==
    Provision(t, "mkdir_job", [temp_dir[job[t]] EXCEPT !.dir = TRUE], "mkdir_output")

\* output_dir.mkdir()
MkdirOutput(t) ==
    Provision(t, "mkdir_output", [temp_dir[job[t]] EXCEPT !.output = TRUE], "save")

\* model_file.save(str(model_path))
SaveModel(t) ==
    Provision(t, "save", [temp_dir[job[t]] EXCEPT !.model = TRUE], "run")

\* subprocess.run(cmd, ...): the engine starts as a child process, or cannot
\* be started (OSError, caught by `except Exception`).
Run(t) ==
    /\ pc[t] = "run"
    /\ \/ /\ proc' = [proc EXCEPT ![t] = "running"]
          /\ pc' = [pc EXCEPT ![t] = "wait"]
          /\ resp' = resp
       \/ /\ resp' = [resp EXCEPT ![t] = SlicingError]
          /\ pc' = [pc EXCEPT ![t] = "clear_busy"]
          /\ proc' = proc
    /\ UNCHANGED << slice_lock, current_job, temp_dir, profiles, admissions,
                    req, job, result, releases, spc, sresp, library_vars >>

\* What the engine leaves in the output directory: any set of *.gcode files
\* when that directory is still there, nothing otherwise.
EngineOutput(d) == IF d.dir /\ d.output THEN SUBSET GcodeFiles ELSE { {} }

\* The engine exits within SLICE_TIMEOUT seconds: subprocess.run returns the
\* CompletedProcess with its return code.
EngineExit(t) ==
    /\ pc[t] = "wait"
    /\ proc[t] = "running"
    /\ \E rc \in ExitCodes, g \in EngineOutput(temp_dir[job[t]]) :
          /\ result' = [result EXCEPT ![t] = Some(rc)]
          /\ temp_dir' = [temp_dir EXCEPT ![job[t]].gcode = g]
    /\ proc' = [proc EXCEPT ![t] = "exited"]
    /\ pc' = [pc EXCEPT ![t] = "glob"]
    /\ UNCHANGED << slice_lock, current_job, profiles, admissions, req, job,
                    resp, releases, spc, sresp, library_vars >>

\* EngineTimeout as it would be if subprocess.run were called without a
\* timeout: the handler waits for as long as the engine runs.
EngineNeverTimesOut(t) ==
    /\ pc[t] = "wait"
    /\ proc[t] = "running"
    /\ FALSE
    /\ UNCHANGED vars

\* The engine is still running after SLICE_TIMEOUT seconds: subprocess.run
\* kills it, waits for it and raises TimeoutExpired, which the handler turns
\* into the timeout response. (Nothing reads the output directory after a
\* timeout, so what the killed engine wrote there is not tracked.)
EngineTimeout(t) ==
    /\ pc[t] = "wait"
    /\ proc[t] = "running"
    /\ proc' = [proc EXCEPT ![t] = "killed"]
    /\ resp' = [resp EXCEPT ![t] = TimedOut]
    /\ pc' = [pc EXCEPT ![t] = "clear_busy"]
    /\ UNCHANGED << slice_lock, current_job, temp_dir, profiles, admissions,
                    req, job, result, releases, spc, sresp, library_vars >>

\* list(output_dir.glob("*.gcode"))
GlobGcode(d) == IF d.dir /\ d.output THEN d.gcode ELSE {}

\* Completion as it would be if the return code decided success: a zero exit
\* with no file would fail on gcode_files[0] (IndexError, a slicing error).
CompletionByExitCode(returncode, gcode_files) ==
    IF returncode # 0
        THEN { [code |-> 500, kind |-> "no_output", exit_code |-> returncode] }
    ELSE IF gcode_files = {}
        THEN { [code |-> 500, kind |-> "slicing_error"] }
    ELSE { [code |-> 200, kind |-> "gcode", download_name |-> f] :
              f \in gcode_files }

\* The responses slice_model may build from the engine's return code and the
\* globbed files: the no-output failure, or the first globbed file (the
\* directory's listing order is any order).
Completion(returncode, gcode_files) ==
    IF gcode_files = {}
        THEN { [code |-> 500, kind |-> "no_output", exit_code |-> returncode] }
        ELSE { [code |-> 200, kind |-> "gcode", download_name |-> f] :
                  f \in gcode_files }

\* Find the output gcode and build the response (the `return` statements of
\* the try block; the finally block runs before the response is sent).
\* `result` is not read again and is dropped here.
Collect(t) ==
    /\ pc[t] = "glob"
    /\ \E r \in Completion(result[t][1], GlobGcode(temp_dir[job[t]])) :
          resp' = [resp EXCEPT ![t] = r]
    /\ result' = [result EXCEPT ![t] = None]
    /\ pc' = [pc EXCEPT ![t] = "clear_busy"]
    /\ UNCHANGED << slice_lock, current_job, temp_dir, profiles, admissions,
                    req, job, proc, releases, spc, sresp, library_vars >>

\* finally: current_job["busy"] = False
ClearBusy(t) ==
    /\ pc[t] = "clear_busy"
    /\ current_job' = [current_job EXCEPT !.busy = FALSE]
    /\ pc' = [pc EXCEPT ![t] = "clear_model"]
    /\ UNCHANGED << slice_lock, temp_dir, profiles, admissions, req, job,
                    result, proc, resp, releases, spc, sresp, library_vars >>

\* finally: current_job["model"] = None
ClearModel(t) ==
    /\ pc[t] = "clear_model"
    /\ current_job' = [current_job EXCEPT !.model = None]
    /\ pc' = [pc EXCEPT ![t] = "clear_started"]
    /\ UNCHANGED << slice_lock, temp_dir, profiles, admissions, req, job,
                    result, proc, resp, releases, spc, sresp, library_vars >>

\* finally: current_job["started"] = None
ClearStarted(t) ==
    /\ pc[t] = "clear_started"
    /\ current_job' = [current_job EXCEPT !.started = None]
    /\ pc' = [pc EXCEPT ![t] = "exists"]
    /\ UNCHANGED << slice_lock, temp_dir, profiles, admissions, req, job,
                    result, proc, resp, releases, spc, sresp, library_vars >>

\* finally: `if job_dir.exists():`. Path.exists() answers by stat(); it
\* returns False for a path that is not there and re-raises any other OSError
\* (EACCES, EIO, ...). Nothing in the finally block catches that: the
\* exception leaves slice_model, replacing the pending response, and the
\* statements after it are not run.
JobDirExists(t) ==
    /\ pc[t] = "exists"
    /\ \/ /\ temp_dir[job[t]].dir
          /\ pc' = [pc EXCEPT ![t] = "rmtree"]
          /\ resp' = resp
       \/ /\ ~temp_dir[job[t]].dir
          /\ pc' = [pc EXCEPT ![t] = "release"]
          /\ resp' = resp
       \/ /\ resp' = [resp EXCEPT ![t] = InternalError]
          /\ pc' = [pc EXCEPT ![t] = "done"]
    /\ UNCHANGED << slice_lock, current_job, temp_dir, profiles, admissions,
                    req, job, result, proc, releases, spc, sresp,
                    library_vars >>

\* finally: shutil.rmtree(job_dir, ignore_errors=True): the tree is removed,
\* or a failure is ignored and the directory stays.
Rmtree(t) ==
    /\ pc[t] = "rmtree"
    /\ \/ temp_dir' = [temp_dir EXCEPT ![job[t]] = NoDir]
       \/ temp_dir' = [temp_dir EXCEPT ![job[t]] = Leftover]
    /\ pc' = [pc EXCEPT ![t] = "release"]
    /\ UNCHANGED << slice_lock, current_job, profiles, admissions, req, job,
                    result, proc, resp, releases, spc, sresp, library_vars >>

\* finally: slice_lock.release(); the response is then sent. Releasing an
\* unlocked lock raises RuntimeError.
Release(t) ==
    /\ pc[t] = "release"
    /\ \/ /\ slice_lock # 0
          /\ slice_lock' = 0
          /\ releases' = [releases EXCEPT ![t] = @ + 1]
          /\ resp' = resp
       \/ /\ slice_lock = 0
          /\ resp' = [resp EXCEPT ![t] = InternalError]
          /\ UNCHANGED << slice_lock, releases >>
    /\ pc' = [pc EXCEPT ![t] = "done"]
    /\ UNCHANGED << current_job, temp_dir, profiles, admissions, req, job,
                    result, proc, spc, sresp, library_vars >>

\* The response has been sent; the thread is free for another request.
Finish(t) ==
    /\ pc[t] = "done"
    /\ pc' = [pc EXCEPT ![t] = "idle"]
    /\ req' = [req EXCEPT ![t] = None]
    /\ job' = [job EXCEPT ![t] = 0]
    /\ result' = [result EXCEPT ![t] = None]
    /\ proc' = [proc EXCEPT ![t] = "none"]
    /\ resp' = [resp EXCEPT ![t] = Pending]
    /\ releases' = [releases EXCEPT ![t] = 0]
    /\ UNCHANGED << slice_lock, current_job, temp_dir, profiles, admissions,
                    spc, sresp, library_vars >>

\* ----------------------------------------------------------- slice_status

\* StatusBusy as it would be if slice_status read current_job under
\* slice_lock: it would wait while a job holds the lock.
StatusBusyUnderLock(o) ==
    /\ spc[o] = "idle"
    /\ slice_lock = 0
    /\ spc' = [spc EXCEPT ![o] = IF current_job.busy THEN "model" ELSE "idle"]
    /\ UNCHANGED << slice_lock, current_job, temp_dir, profiles, admissions,
                    pc, req, job, result, proc, resp, releases, sresp,
                    library_vars >>

\* `if current_job["busy"]:`; when it is false the handler returns
\* jsonify(busy=False) at once.
StatusBusy(o) ==
    /\ spc[o] = "idle"
    /\ spc' = [spc EXCEPT ![o] = IF current_job.busy THEN "model" ELSE "idle"]
    /\ UNCHANGED << slice_lock, current_job, temp_dir, profiles, admissions,
                    pc, req, job, result, proc, resp, releases, sresp,
                    library_vars >>

\* model=current_job["model"]
StatusModel(o) ==
    /\ spc[o] = "model"
    /\ sresp' = [sresp EXCEPT ![o] = Some(current_job.model)]
    /\ spc' = [spc EXCEPT ![o] = "started"]
    /\ UNCHANGED << slice_lock, current_job, temp_dir, profiles, admissions,
                    pc, req, job, result, proc, resp, releases,
                    library_vars >>

\* The response slice_status sends once it has read current_job["started"].
StatusResponse(o) ==
    [busy |-> TRUE, model |-> sresp[o][1], started |-> current_job.started]

\* started=current_job["started"], and jsonify(busy=True, model, started) is
\* returned: the thread is free for another request.
StatusStarted(o) ==
    /\ spc[o] = "started"
    /\ sresp' = [sresp EXCEPT ![o] = None]
    /\ spc' = [spc EXCEPT ![o] = "idle"]
    /\ UNCHANGED << slice_lock, current_job, temp_dir, profiles, admissions,
                    pc, req, job, result, proc, resp, releases,
                    library_vars >>

\* ------------------------------------------------- resolve_system_profile
\* A profile document is a function from its keys to its values (strings).

EmptyDoc == [k \in {} |-> ""]

\* dict.update: parent.update(obj) overlays obj's keys onto parent's.
Update(parent, obj) ==
    [k \in DOMAIN parent \cup DOMAIN obj |->
        IF k \in DOMAIN obj THEN obj[k] ELSE parent[k]]

\* dict.get(key), None being the empty string here: both are falsy.
Get(obj, key) == IF key \in DOMAIN obj THEN obj[key] ELSE ""

Subdirs == { "machine", "process", "filament" }

\* Names of bundled profiles.
Names == { "A", "B", "C" }

\* Keys a bundled profile may carry besides "name" and "inherits".
DataKeys == { "a", "b" }

\* The document of the bundled file indexed under `name`: its "name" is the
\* name it is indexed by, `inherits` is None or Some(parent name), and every
\* other key carries the name of the file as its value.
BundledDoc(name, inherits, keys) ==
    [k \in { "name" } \cup (IF inherits = None THEN {} ELSE { "inherits" }) \cup keys |->
        IF k = "inherits" THEN inherits[1] ELSE name]

BundledDocs(name) ==
    { BundledDoc(name, inh, keys) :
        inh \in { None } \cup { Some(p) : p \in Names \cup { "" } },
        keys \in SUBSET DataKeys }

\* The indexes of one subdirectory: any subset of Names, each name with one
\* of its documents.
SubdirIndexes ==
    UNION { [ns -> UNION { BundledDocs(n) : n \in ns }] : ns \in SUBSET Names }

WellIndexed(ix) == \A n \in DOMAIN ix : ix[n]["name"] = n

\* _system_profile_index after build_system_profile_index(): the bundled
\* machine profiles are any index; no process or filament profile is bundled.
Catalogs ==
    { [sd \in Subdirs |-> IF sd = "machine" THEN ix ELSE EmptyDoc] :
        ix \in { i \in SubdirIndexes : WellIndexed(i) } }

\* The recursion of resolve_system_profile with the interpreter's call depth:
\* a call deeper than MaxDepth raises RecursionError (err), which no frame
\* catches.
RECURSIVE ResolveMissingSeenCheck(_, _, _, _)
ResolveMissingSeenCheck(subdir, name, seen, depth) ==
    IF depth > MaxDepth THEN [err |-> TRUE, doc |-> EmptyDoc]
    ELSE IF name \notin DOMAIN index[subdir] THEN [err |-> FALSE, doc |-> EmptyDoc]
    ELSE LET obj == index[subdir][name]
             parent_name == Get(obj, "inherits")
         IN  IF parent_name # ""
                THEN LET parent == ResolveMissingSeenCheck(subdir, parent_name,
                                       seen \cup { name }, depth + 1)
                     IN  [err |-> parent.err, doc |-> Update(parent.doc, obj)]
                ELSE [err |-> FALSE, doc |-> obj]

\* Resolve as it would be if the parent's keys were laid over the child's
\* (obj.update(parent) instead of parent.update(obj)).
RECURSIVE ResolveParentWins(_, _, _, _)
ResolveParentWins(subdir, name, seen, depth) ==
    IF depth > MaxDepth THEN [err |-> TRUE, doc |-> EmptyDoc]
    ELSE IF name \in seen THEN [err |-> FALSE, doc |-> EmptyDoc]
    ELSE IF name \notin DOMAIN index[subdir] THEN [err |-> FALSE, doc |-> EmptyDoc]
    ELSE LET obj == index[subdir][name]
             parent_name == Get(obj, "inherits")
         IN  IF parent_name # ""
                THEN LET parent == ResolveParentWins(subdir, parent_name,
                                       seen \cup { name }, depth + 1)
                     IN  [err |-> parent.err, doc |-> Update(obj, parent.doc)]
                ELSE [err |-> FALSE, doc |-> obj]

RECURSIVE Resolve(_, _, _, _)
Resolve(subdir, name, seen, depth) ==
    IF depth > MaxDepth THEN [err |-> TRUE, doc |-> EmptyDoc]
    ELSE IF name \in seen THEN [err |-> FALSE, doc |-> EmptyDoc]
    ELSE IF name \notin DOMAIN index[subdir] THEN [err |-> FALSE, doc |-> EmptyDoc]
    ELSE LET obj == index[subdir][name]
             parent_name == Get(obj, "inherits")
         IN  IF parent_name # ""
                THEN LET parent == Resolve(subdir, parent_name,
                                           seen \cup { name }, depth + 1)
                     IN  [err |-> parent.err, doc |-> Update(parent.doc, obj)]
                ELSE [err |-> FALSE, doc |-> obj]

\* resolve_system_profile(subdir, name): _seen starts as the empty set.
resolve_system_profile(subdir, name) == Resolve(subdir, name, {}, 1)

\* A caller resolves a bundled profile by name.
ResolveCall ==
    /\ \E subdir \in Subdirs, name \in Names :
          /\ query' = Some(<< subdir, name >>)
          /\ resolved' = Some(resolve_system_profile(subdir, name))
    /\ UNCHANGED << index, slice_vars, normalize_vars, profile_bytes,
                    client_vars >>

\* ---------------------------------------------------- ensure_orca_metadata
\* A request body is the JSON text of an object with string values; it is
\* kept as the document it parses to, and so is the text returned.

CATEGORY_TO_ORCA_TYPE(category) ==
    CASE category = "printer" -> "machine"
      [] category = "process" -> "process"
      [] category = "filament" -> "filament"

CATEGORY_TO_SUBDIR(category) ==
    CASE category = "printer" -> "machine"
      [] category = "process" -> "process"
      [] category = "filament" -> "filament"

VALID_FROM_VALUES == { "system", "User", "user" }

\* obj[key] = value
SetItem(obj, key, value) ==
    [k \in DOMAIN obj \cup { key } |-> IF k = key THEN value ELSE obj[k]]

\* The document after `obj["type"] = orca_type` and the defaulting of "from".
Stamped(doc, category) ==
    LET typed == SetItem(doc, "type", CATEGORY_TO_ORCA_TYPE(category))
    IN  IF Get(typed, "from") \notin VALID_FROM_VALUES
           THEN SetItem(typed, "from", "User")
           ELSE typed

\* ensure_orca_metadata with `obj.setdefault("type", orca_type)`: a type the
\* input carries is kept.
EnsureTypeIfAbsent(doc, category) ==
    LET typed == IF "type" \in DOMAIN doc THEN doc
                 ELSE SetItem(doc, "type", CATEGORY_TO_ORCA_TYPE(category))
        obj == IF Get(typed, "from") \notin VALID_FROM_VALUES
                  THEN SetItem(typed, "from", "User") ELSE typed
        inherits_name == Get(obj, "inherits")
    IN  IF inherits_name # ""
           THEN LET base == resolve_system_profile(CATEGORY_TO_SUBDIR(category),
                                                   inherits_name)
                IN  IF base.err THEN [err |-> TRUE, doc |-> EmptyDoc]
                    ELSE IF base.doc # EmptyDoc
                       THEN [err |-> FALSE,
                             doc |-> SetItem(Update(base.doc, obj), "inherits",
                                             inherits_name)]
                    ELSE [err |-> FALSE, doc |-> obj]
           ELSE [err |-> FALSE, doc |-> obj]

\* ensure_orca_metadata with `inherits_name = obj.pop("inherits", None)` and
\* no re-stamping: the merged document carries the base's inherits, if any.
EnsureInheritsPopped(doc, category) ==
    LET obj == Stamped(doc, category)
        inherits_name == Get(obj, "inherits")
        rest == [k \in DOMAIN obj \ { "inherits" } |-> obj[k]]
    IN  IF inherits_name # ""
           THEN LET base == resolve_system_profile(CATEGORY_TO_SUBDIR(category),
                                                   inherits_name)
                IN  IF base.err THEN [err |-> TRUE, doc |-> EmptyDoc]
                    ELSE IF base.doc # EmptyDoc
                       THEN [err |-> FALSE, doc |-> Update(base.doc, rest)]
                    ELSE [err |-> FALSE, doc |-> obj]
           ELSE [err |-> FALSE, doc |-> obj]

\* ensure_orca_metadata with the "from" check made after the merge: a valid
\* "from" of the base stands where the document has none.
EnsureStampsAfterMerge(doc, category) ==
    LET typed == SetItem(doc, "type", CATEGORY_TO_ORCA_TYPE(category))
        inherits_name == Get(typed, "inherits")
        base == IF inherits_name # ""
                   THEN resolve_system_profile(CATEGORY_TO_SUBDIR(category),
                                               inherits_name)
                   ELSE [err |-> FALSE, doc |-> EmptyDoc]
        merged == IF base.doc # EmptyDoc
                     THEN SetItem(Update(base.doc, typed), "inherits", inherits_name)
                     ELSE typed
    IN  IF base.err THEN [err |-> TRUE, doc |-> EmptyDoc]
        ELSE [err |-> FALSE,
              doc |-> IF Get(merged, "from") \notin VALID_FROM_VALUES
                         THEN SetItem(merged, "from", "User") ELSE merged]

\* ensure_orca_metadata with `obj["from"] = "User"` done unconditionally.
EnsureFromAlways(doc, category) ==
    LET obj == SetItem(SetItem(doc, "type", CATEGORY_TO_ORCA_TYPE(category)),
                       "from", "User")
        inherits_name == Get(obj, "inherits")
    IN  IF inherits_name # ""
           THEN LET base == resolve_system_profile(CATEGORY_TO_SUBDIR(category),
                                                   inherits_name)
                IN  IF base.err THEN [err |-> TRUE, doc |-> EmptyDoc]
                    ELSE IF base.doc # EmptyDoc
                       THEN [err |-> FALSE,
                             doc |-> SetItem(Update(base.doc, obj), "inherits",
                                             inherits_name)]
                    ELSE [err |-> FALSE, doc |-> obj]
           ELSE [err |-> FALSE, doc |-> obj]

\* ensure_orca_metadata with `obj.update(base)` and no re-stamping: the base
\* wins on every collision.
EnsureMergeReversed(doc, category) ==
    LET obj == Stamped(doc, category)
        inherits_name == Get(obj, "inherits")
    IN  IF inherits_name # ""
           THEN LET base == resolve_system_profile(CATEGORY_TO_SUBDIR(category),
                                                   inherits_name)
                IN  IF base.err THEN [err |-> TRUE, doc |-> EmptyDoc]
                    ELSE IF base.doc # EmptyDoc
                       THEN [err |-> FALSE, doc |-> Update(obj, base.doc)]
                    ELSE [err |-> FALSE, doc |-> obj]
           ELSE [err |-> FALSE, doc |-> obj]

\* ensure_orca_metadata(data_bytes, category): err when an exception leaves
\* it (one raised by resolve_system_profile), else the returned document.
ensure_orca_metadata(doc, category) ==
    LET obj == Stamped(doc, category)
        inherits_name == Get(obj, "inherits")
    IN  IF inherits_name # ""
           THEN LET base == resolve_system_profile(CATEGORY_TO_SUBDIR(category),
                                                   inherits_name)
                IN  IF base.err THEN [err |-> TRUE, doc |-> EmptyDoc]
                    ELSE IF base.doc # EmptyDoc
                       THEN [err |-> FALSE,
                             doc |-> SetItem(Update(base.doc, obj), "inherits",
                                             inherits_name)]
                    ELSE [err |-> FALSE, doc |-> obj]
           ELSE [err |-> FALSE, doc |-> obj]

\* The uploaded documents: each of "type", "from", "inherits" and one data
\* key present or not, with recognized and unrecognized values.
UploadedValues(key) ==
    CASE key = "type" -> { "machine", "x" }
      [] key = "from" -> { "system", "User", "user", "x" }
      [] key = "inherits" -> { "", "A", "B", "C" }
      [] key = "a" -> { "u" }

UploadedDocs ==
    UNION { { d \in [ks -> { "machine", "x", "system", "User", "user", "",
                             "A", "B", "C", "u" }] :
                \A k \in ks : d[k] \in UploadedValues(k) } :
              ks \in SUBSET { "type", "from", "inherits", "a" } }

\* A bundled file as OrcaSlicer ships it: "type" and "from" present or not.
SystemDoc(name, inherits, meta, keys) ==
    [k \in { "name" } \cup (IF inherits = None THEN {} ELSE { "inherits" })
            \cup (IF meta THEN { "type", "from" } ELSE {}) \cup keys |->
        CASE k = "inherits" -> inherits[1]
          [] k = "type" -> "machine_model"
          [] k = "from" -> "system"
          [] OTHER -> name]

\* The bundled machine profiles of the catalogs ensure_orca_metadata is run
\* over: "A" and "B", each bundled or not, inheriting from "A", "B", the
\* unbundled "C" or nothing.
SystemIndexes ==
    UNION { [ns -> { SystemDoc(n, inh, meta, keys) :
                        n \in ns,
                        inh \in { None, Some("A"), Some("B"), Some("C") },
                        meta \in BOOLEAN, keys \in SUBSET { "a" } }] :
              ns \in SUBSET { "A", "B" } }

\* The catalogs: any machine index, no process profile, and one filament
\* profile "A" that differs from every machine profile.
SystemCatalogs ==
    { [sd \in Subdirs |->
          CASE sd = "machine" -> ix
            [] sd = "process" -> EmptyDoc
            [] sd = "filament" ->
                  [n \in { "A" } |-> SystemDoc("A", None, TRUE, { "b" })]] :
        ix \in { i \in SystemIndexes : WellIndexed(i) } }

\* upload_profile or replace_profile normalizes an uploaded document.
NormalizeCall ==
    /\ norm_query = None
    /\ \E category \in Categories, doc \in UploadedDocs :
          /\ norm_query' = Some([category |-> category, doc |-> doc])
          /\ normalized' = Some(ensure_orca_metadata(doc, category))
    /\ UNCHANGED << slice_vars, resolver_vars, profile_bytes, client_vars >>

\* replace_profile normalizes the document the last normalization returned
\* (a stored profile uploaded again in its category).
Renormalize ==
    /\ normalized # None
    /\ ~normalized[1].err
    /\ norm_query[1].doc # normalized[1].doc
    /\ norm_query' = Some([category |-> norm_query[1].category,
                           doc |-> normalized[1].doc])
    /\ normalized' = Some(ensure_orca_metadata(normalized[1].doc,
                                               norm_query[1].category))
    /\ UNCHANGED << slice_vars, resolver_vars, profile_bytes, client_vars >>

\* ------------------------------------------------------------ profile CRUD
\* One step per access to the file system; what a handler computes from its
\* request alone is part of its first step.

\* The characters the first substitution of sanitize_profile_name keeps.
NameChars ==
    { "a", "b", "c", "d", "e", "f", "g", "h", "i", "j", "k", "l", "m", "n", "o",
      "p", "q", "r", "s", "t", "u", "v", "w", "x", "y", "z",
      "0", "1", "2", "3", "4", "5", "6", "7", "8", "9", "-" }

\* re.sub(r"[^a-z0-9-]", "-", name)
ReplaceOthers(name) ==
    [i \in 1..Len(name) |-> IF name[i] \in NameChars THEN name[i] ELSE "-"]

\* re.sub(r"-+", "-", name): every run of dashes becomes one dash. The two
\* halves of the name are collapsed and joined, the run that spans the join
\* counted once.
RECURSIVE CollapseDashes(_)
CollapseDashes(name) ==
    IF Len(name) < 2 THEN name
    ELSE LET half == Len(name) \div 2
             left == CollapseDashes(SubSeq(name, 1, half))
             right == CollapseDashes(SubSeq(name, half + 1, Len(name)))
         IN  IF left[Len(left)] = "-" /\ right[1] = "-"
                THEN left \o Tail(right)
                ELSE left \o right

\* name.strip("-")
StripDashes(name) ==
    LET others == { i \in 1..Len(name) : name[i] # "-" }
    IN  IF others = {} THEN << >>
        ELSE SubSeq(name, CHOOSE i \in others : \A j \in others : i <= j,
                          CHOOSE i \in others : \A j \in others : j <= i)

\* name[:100]
Truncate(name) ==
    IF Len(name) > MaxNameLength THEN SubSeq(name, 1, MaxNameLength) ELSE name

\* sanitize_profile_name(name)
sanitize_profile_name(name) ==
    Truncate(StripDashes(CollapseDashes(ReplaceOthers(Lower(name)))))

\* The last index of the character in the string, 0 when it has none
\* (str.rfind, plus one).
RFind(str, ch) ==
    LET at == { i \in 1..Len(str) : str[i] = ch }
    IN  IF at = {} THEN 0 ELSE CHOOSE i \in at : \A j \in at : j <= i

\* Path(filename).stem for a filename that does not end in a slash: the
\* final component without its last suffix.
Stem(filename) ==
    LET final == SubSeq(filename, RFind(filename, "/") + 1, Len(filename))
        dot == RFind(final, ".")
    IN  IF 1 < dot /\ dot < Len(final) THEN SubSeq(final, 1, dot - 1) ELSE final

\* validate_category(category) passes.
ValidCategory(category) == category \in Categories

\* A name longer than sanitize_profile_name keeps, with a dash where the cut
\* falls.
LongName ==
    [i \in 1..(MaxNameLength + 1) |-> IF i = MaxNameLength THEN "-" ELSE "a"]

\* Uploaded files: request.files["file"] with the client's filename and
\* content, which is a JSON document or not JSON at all.
ProfileFile(filename, json) ==
    Some([filename |-> filename, json |-> json])

GoodFile ==
    ProfileFile(<< "s", ".", "j", "s", "o", "n" >>, Some([k \in { "a" } |-> "u"]))

OtherFile ==
    ProfileFile(<< "M", " ", "y", ".", "j", "s", "o", "n" >>,
                Some([k \in { "a" } |-> "v"]))

\* POST /api/profiles/<category> requests.
UploadRequests ==
    { [op |-> "upload", category |-> "printer", file |-> GoodFile, name |-> << >>],
      [op |-> "upload", category |-> "printer", file |-> OtherFile,
       name |-> << " ", "S", " " >>],
      [op |-> "upload", category |-> "printer", file |-> OtherFile, name |-> << >>],
      [op |-> "upload", category |-> "printer", file |-> GoodFile, name |-> LongName],
      [op |-> "upload", category |-> "printer", file |-> GoodFile,
       name |-> << "-", "-" >>],
      [op |-> "upload", category |-> "printer", file |-> None, name |-> << "s" >>],
      [op |-> "upload", category |-> "printer",
       file |-> ProfileFile(<< >>, Some(EmptyDoc)), name |-> << "s" >>],
      [op |-> "upload", category |-> "printer",
       file |-> ProfileFile(<< "s" >>, None), name |-> << >>],
      [op |-> "upload", category |-> "bogus", file |-> GoodFile, name |-> << >>] }

\* PUT /api/profiles/<category>/<name> requests.
ReplaceRequests ==
    { [op |-> "replace", category |-> "printer", name |-> << "s" >>,
       file |-> OtherFile],
      [op |-> "replace", category |-> "printer", name |-> << "M", " ", "y" >>,
       file |-> GoodFile],
      [op |-> "replace", category |-> "printer", name |-> << "s" >>, file |-> None],
      [op |-> "replace", category |-> "printer", name |-> << "s" >>,
       file |-> ProfileFile(<< "s" >>, None)],
      [op |-> "replace", category |-> "bogus", name |-> << "s" >>,
       file |-> GoodFile] }

\* PATCH /api/profiles/<category>/<name> requests; new_name is None when the
\* body is not JSON or has no "new_name".
RenameRequests ==
    { [op |-> "rename", category |-> "printer", name |-> << "s" >>,
       new_name |-> Some(<< "M", " ", "y" >>)],
      [op |-> "rename", category |-> "printer", name |-> << "s" >>,
       new_name |-> Some(<< "S" >>)],
      [op |-> "rename", category |-> "printer", name |-> << "m", "-", "y" >>,
       new_name |-> Some(<< "s" >>)],
      [op |-> "rename", category |-> "printer", name |-> << "s" >>,
       new_name |-> Some(<< "-" >>)],
      [op |-> "rename", category |-> "printer", name |-> << "s" >>,
       new_name |-> None],
      [op |-> "rename", category |-> "bogus", name |-> << "s" >>,
       new_name |-> Some(<< "s" >>)] }

\* DELETE /api/profiles/<category>/<name> requests.
DeleteRequests ==
    { [op |-> "delete", category |-> "printer", name |-> << "s" >>],
      [op |-> "delete", category |-> "printer", name |-> << "M", " ", "y" >>],
      [op |-> "delete", category |-> "bogus", name |-> << "s" >>] }

\* The responses of the profile handlers.
BadRequest(kind) == [code |-> 400, kind |-> kind]

NotFound == [code |-> 404, kind |-> "profile_not_found"]

Conflict == [code |-> 409, kind |-> "profile_exists"]

\* jsonify(**profile_info(category, name)) with the handler's status code.
ProfileInfo(code, category, name) ==
    [code |-> code, kind |-> "profile", category |-> category, name |-> name]

\* path.write_bytes(data): the file is created, or its content replaced.
WriteBytes(files, path, data) ==
    [q \in DOMAIN files \cup { path } |-> IF q = path THEN data ELSE files[q]]

\* The files without the one at path.
Unlink(files, path) == [q \in DOMAIN files \ { path } |-> files[q]]

\* The name upload_profile stores under: the form field "name", or the stem
\* of the filename when the field is blank, sanitized.
UploadName(r) ==
    LET name == Strip(r.name)
    IN  sanitize_profile_name(IF name = << >> THEN Stem(r.file[1].filename)
                              ELSE name)

\* The checks of upload_profile before it touches the store: the error
\* response of the first that fails, or kind "ok".
UploadValidate(r) ==
    IF ~ValidCategory(r.category) THEN BadRequest("invalid_category")
    ELSE IF r.file = None THEN BadRequest("no_file")
    ELSE IF r.file[1].filename = << >> THEN BadRequest("empty_filename")
    ELSE IF r.file[1].json = None THEN BadRequest("invalid_json")
    ELSE IF ensure_orca_metadata(r.file[1].json[1], r.category).err
        THEN InternalError
    ELSE IF UploadName(r) = << >> THEN BadRequest("no_valid_name")
    ELSE [code |-> 0, kind |-> "ok"]

\* The checks of replace_profile before it writes.
ReplaceValidate(r) ==
    IF ~ValidCategory(r.category) THEN BadRequest("invalid_category")
    ELSE IF r.file = None THEN BadRequest("no_file")
    ELSE IF r.file[1].json = None THEN BadRequest("invalid_json")
    ELSE IF ensure_orca_metadata(r.file[1].json[1], r.category).err
        THEN InternalError
    ELSE [code |-> 0, kind |-> "ok"]

\* A client's step: its position, local name, local data and response change
\* as given, the request stays.
ClientStep(c, next, name, data, response) ==
    /\ cpc' = [cpc EXCEPT ![c] = next]
    /\ cname' = [cname EXCEPT ![c] = name]
    /\ cdata' = [cdata EXCEPT ![c] = data]
    /\ cresp' = [cresp EXCEPT ![c] = response]

\* upload_profile up to the derivation of the name (mkdir of the category
\* directory included, which exist_ok makes a no-op when it is there).
UploadBegin(c) ==
    /\ cpc[c] = "idle"
    /\ \E r \in UploadRequests :
          LET v == UploadValidate(r)
          IN  /\ creq' = [creq EXCEPT ![c] = Some(r)]
              /\ IF v.kind = "ok"
                    THEN ClientStep(c, "exists", Some(UploadName(r)),
                           Some(ensure_orca_metadata(r.file[1].json[1],
                                                     r.category).doc),
                           Pending)
                    ELSE ClientStep(c, "done", None, None, v)
    /\ UNCHANGED << profiles, profile_bytes, orchestrator_vars, resolver_vars,
                    normalize_vars >>

\* The path a client's handler works on.
ClientPath(c) == << creq[c][1].category, cname[c][1] >>

Frame == << orchestrator_vars, resolver_vars, normalize_vars >>

\* upload_profile: `if path.exists()`.
UploadExists(c) ==
    /\ cpc[c] = "exists"
    /\ IF ClientPath(c) \in profiles
          THEN ClientStep(c, "done", cname[c], cdata[c], Conflict)
          ELSE ClientStep(c, "write", cname[c], cdata[c], Pending)
    /\ UNCHANGED << profiles, profile_bytes, creq, Frame >>

\* upload_profile: path.write_bytes(data).
UploadWrite(c) ==
    /\ cpc[c] = "write"
    /\ creq[c][1].op = "upload"
    /\ profiles' = profiles \cup { ClientPath(c) }
    /\ profile_bytes' = WriteBytes(profile_bytes, ClientPath(c), cdata[c][1])
    /\ ClientStep(c, "info", cname[c], cdata[c], Pending)
    /\ UNCHANGED << creq, Frame >>

\* replace_profile up to the write (mkdir included): the name is the one of
\* the URL.
ReplaceBegin(c) ==
    /\ cpc[c] = "idle"
    /\ \E r \in ReplaceRequests :
          LET v == ReplaceValidate(r)
          IN  /\ creq' = [creq EXCEPT ![c] = Some(r)]
              /\ IF v.kind = "ok"
                    THEN ClientStep(c, "write", Some(r.name),
                           Some(ensure_orca_metadata(r.file[1].json[1],
                                                     r.category).doc),
                           Pending)
                    ELSE ClientStep(c, "done", None, None, v)
    /\ UNCHANGED << profiles, profile_bytes, Frame >>

\* replace_profile: path.write_bytes(data).
ReplaceWrite(c) ==
    /\ cpc[c] = "write"
    /\ creq[c][1].op = "replace"
    /\ profiles' = profiles \cup { ClientPath(c) }
    /\ profile_bytes' = WriteBytes(profile_bytes, ClientPath(c), cdata[c][1])
    /\ ClientStep(c, "info", cname[c], cdata[c], Pending)
    /\ UNCHANGED << creq, Frame >>

\* rename_profile up to the comparison of the names: `if not path.exists()`
\* is its one access to the store.
RenameBegin(c) ==
    /\ cpc[c] = "idle"
    /\ \E r \in RenameRequests :
          /\ creq' = [creq EXCEPT ![c] = Some(r)]
          /\ IF ~ValidCategory(r.category)
                THEN ClientStep(c, "done", None, None,
                                BadRequest("invalid_category"))
             ELSE IF << r.category, r.name >> \notin profiles
                THEN ClientStep(c, "done", None, None, NotFound)
             ELSE IF r.new_name = None
                THEN ClientStep(c, "done", None, None,
                                BadRequest("new_name_required"))
             ELSE IF sanitize_profile_name(r.new_name[1]) = << >>
                THEN ClientStep(c, "done", None, None,
                                BadRequest("invalid_new_name"))
             ELSE IF sanitize_profile_name(r.new_name[1]) = r.name
                THEN ClientStep(c, "info", Some(r.name), None, Pending)
             ELSE ClientStep(c, "new_exists",
                             Some(sanitize_profile_name(r.new_name[1])), None,
                             Pending)
    /\ UNCHANGED << profiles, profile_bytes, Frame >>

\* rename_profile: `if new_path.exists()`.
RenameNewExists(c) ==
    /\ cpc[c] = "new_exists"
    /\ IF ClientPath(c) \in profiles
          THEN ClientStep(c, "done", cname[c], cdata[c], Conflict)
          ELSE ClientStep(c, "rename", cname[c], cdata[c], Pending)
    /\ UNCHANGED << profiles, profile_bytes, creq, Frame >>

\* rename_profile: path.rename(new_path). It raises when the source is gone
\* and replaces a file that is at new_path (POSIX rename).
RenameMove(c) ==
    /\ cpc[c] = "rename"
    /\ LET path == << creq[c][1].category, creq[c][1].name >>
       IN  IF path \in profiles
              THEN /\ profiles' = (profiles \ { path }) \cup { ClientPath(c) }
                   /\ profile_bytes' = WriteBytes(Unlink(profile_bytes, path),
                                                  ClientPath(c),
                                                  profile_bytes[path])
                   /\ ClientStep(c, "info", cname[c], cdata[c], Pending)
              ELSE /\ UNCHANGED << profiles, profile_bytes >>
                   /\ ClientStep(c, "done", cname[c], cdata[c], InternalError)
    /\ UNCHANGED << creq, Frame >>

\* profile_info(category, name): path.stat() raises when the file is gone.
Info(c) ==
    /\ cpc[c] = "info"
    /\ IF ClientPath(c) \in profiles
          THEN ClientStep(c, "done", cname[c], cdata[c],
                 ProfileInfo(IF creq[c][1].op = "upload" THEN 201 ELSE 200,
                             creq[c][1].category, cname[c][1]))
          ELSE ClientStep(c, "done", cname[c], cdata[c], InternalError)
    /\ UNCHANGED << profiles, profile_bytes, creq, Frame >>

\* delete_profile up to `if not path.exists()`.
DeleteBegin(c) ==
    /\ cpc[c] = "idle"
    /\ \E r \in DeleteRequests :
          /\ creq' = [creq EXCEPT ![c] = Some(r)]
          /\ IF ~ValidCategory(r.category)
                THEN ClientStep(c, "done", None, None,
                                BadRequest("invalid_category"))
             ELSE IF << r.category, r.name >> \notin profiles
                THEN ClientStep(c, "done", None, None, NotFound)
             ELSE ClientStep(c, "unlink", Some(r.name), None, Pending)
    /\ UNCHANGED << profiles, profile_bytes, Frame >>

\* delete_profile: path.unlink(), which raises when the file is gone.
DeleteUnlink(c) ==
    /\ cpc[c] = "unlink"
    /\ IF ClientPath(c) \in profiles
          THEN /\ profiles' = profiles \ { ClientPath(c) }
               /\ profile_bytes' = Unlink(profile_bytes, ClientPath(c))
               /\ ClientStep(c, "done", cname[c], cdata[c],
                     [code |-> 200, kind |-> "deleted",
                      category |-> creq[c][1].category, deleted |-> cname[c][1]])
          ELSE /\ UNCHANGED << profiles, profile_bytes >>
               /\ ClientStep(c, "done", cname[c], cdata[c], InternalError)
    /\ UNCHANGED << creq, Frame >>

\* The response is sent and the thread is free for the next request.
ClientFinish(c) ==
    /\ cpc[c] = "done"
    /\ creq' = [creq EXCEPT ![c] = None]
    /\ ClientStep(c, "idle", None, None, Pending)
    /\ UNCHANGED << profiles, profile_bytes, Frame >>

\* --------------------------------------------------------- specifications

OrchestratorInit ==
    /\ slice_lock = 0
    /\ current_job = [busy |-> FALSE, model |-> None, started |-> None]
    /\ temp_dir = [j \in JobIds |-> NoDir]
    /\ admissions = 0
    /\ pc = [t \in Workers |-> "idle"]
    /\ req = [t \in Workers |-> None]
    /\ job = [t \in Workers |-> 0]
    /\ result = [t \in Workers |-> None]
    /\ proc = [t \in Workers |-> "none"]
    /\ resp = [t \in Workers |-> Pending]
    /\ releases = [t \in Workers |-> 0]
    /\ spc = [o \in Observers |-> "idle"]
    /\ sresp = [o \in Observers |-> None]

\* No profile request is being handled.
ClientsInit ==
    /\ cpc = [c \in Clients |-> "idle"]
    /\ creq = [c \in Clients |-> None]
    /\ cname = [c \in Clients |-> None]
    /\ cdata = [c \in Clients |-> None]
    /\ cresp = [c \in Clients |-> Pending]

\* The service at start, its profile store holding ProfileStore.
SliceInit ==
    /\ OrchestratorInit
    /\ profiles = ProfileStore
    /\ profile_bytes = [p \in ProfileStore |-> Stamped(EmptyDoc, p[1])]
    /\ ClientsInit

\* The steps of slice_model after the request has been validated.
Handler(t) ==
    \/ Acquire(t)
    \/ SetBusy(t)
    \/ SetModel(t)
    \/ SetStarted(t)
    \/ MkdirJob(t)
    \/ MkdirOutput(t)
    \/ SaveModel(t)
    \/ Run(t)
    \/ EngineExit(t)
    \/ EngineTimeout(t)
    \/ Collect(t)
    \/ ClearBusy(t)
    \/ ClearModel(t)
    \/ ClearStarted(t)
    \/ JobDirExists(t)
    \/ Rmtree(t)
    \/ Release(t)

\* slice_status
Status(o) ==
    \/ StatusBusy(o)
    \/ StatusModel(o)
    \/ StatusStarted(o)

SliceNext ==
    \/ \E t \in Workers : SliceBegin(t) \/ Handler(t) \/ Finish(t)
    \/ \E o \in Observers : Status(o)

\* The service handling slice and status requests; the catalog is not used.
Init ==
    /\ SliceInit
    /\ index = [sd \in Subdirs |-> EmptyDoc]
    /\ query = None
    /\ resolved = None
    /\ norm_query = None
    /\ normalized = None

Next == SliceNext

Spec == Init /\ [][Next]_vars

\* The steps of a handler that its thread takes by itself once scheduled:
\* every step but the exit of the engine, which is up to the engine. The
\* expiry of the timeout is one of them: subprocess.run enforces it.
Scheduled(t) ==
    \/ Acquire(t)
    \/ SetBusy(t)
    \/ SetModel(t)
    \/ SetStarted(t)
    \/ MkdirJob(t)
    \/ MkdirOutput(t)
    \/ SaveModel(t)
    \/ Run(t)
    \/ EngineTimeout(t)
    \/ Collect(t)
    \/ ClearBusy(t)
    \/ ClearModel(t)
    \/ ClearStarted(t)
    \/ JobDirExists(t)
    \/ Rmtree(t)
    \/ Release(t)

\* The same service, every handler thread being scheduled until it returns.
FairSpec == Spec /\ \A t \in Workers : WF_vars(Scheduled(t))

\* Calls of resolve_system_profile over every catalog.
ResolveInit ==
    /\ SliceInit
    /\ index \in Catalogs
    /\ query = None
    /\ resolved = None
    /\ norm_query = None
    /\ normalized = None

ResolveNext == ResolveCall

ResolveSpec == ResolveInit /\ [][ResolveNext]_vars

\* Calls of ensure_orca_metadata over the catalogs.
NormalizeInit ==
    /\ SliceInit
    /\ index \in SystemCatalogs
    /\ query = None
    /\ resolved = None
    /\ norm_query = None
    /\ normalized = None

NormalizeNext == NormalizeCall \/ Renormalize

NormalizeSpec == NormalizeInit /\ [][NormalizeNext]_vars

\* The profile store, empty at start, under concurrent profile requests; no
\* profile is bundled.
StoreInit ==
    /\ OrchestratorInit
    /\ profiles = {}
    /\ profile_bytes = [p \in {} |-> EmptyDoc]
    /\ ClientsInit
    /\ index = [sd \in Subdirs |-> EmptyDoc]
    /\ query = None
    /\ resolved = None
    /\ norm_query = None
    /\ normalized = None

StoreNext ==
    \E c \in Clients :
        \/ UploadBegin(c)
        \/ UploadExists(c)
        \/ UploadWrite(c)
        \/ ReplaceBegin(c)
        \/ ReplaceWrite(c)
        \/ RenameBegin(c)
        \/ RenameNewExists(c)
        \/ RenameMove(c)
        \/ DeleteBegin(c)
        \/ DeleteUnlink(c)
        \/ Info(c)
        \/ ClientFinish(c)

StoreSpec == StoreInit /\ [][StoreNext]_vars

\* The profile store, empty at start, under concurrent create requests only.
CreateNext ==
    \E c \in Clients :
        \/ UploadBegin(c)
        \/ UploadExists(c)
        \/ UploadWrite(c)
        \/ Info(c)
        \/ ClientFinish(c)

CreateSpec == StoreInit /\ [][CreateNext]_vars

\* ------------------------------------------------------------- properties

\* The positions of slice_model between the acquisition of slice_lock and its
\* release.
SlotPositions ==
    { "set_busy", "set_model", "set_started", "mkdir_job", "mkdir_output",
      "save", "run", "wait", "glob", "clear_busy", "clear_model",
      "clear_started", "exists", "rmtree", "release" }

InSlot(t) == pc[t] \in SlotPositions

\* C1: at most one request is between the successful acquisition of
\* slice_lock and its release, and the lock is then held for that request.
C1_MutualExclusion ==
    /\ Cardinality({ t \in Workers : InSlot(t) }) <= 1
    /\ \A t \in Workers : InSlot(t) => slice_lock = job[t]

\* C1 witness: a job holds the slot while another validated request is about
\* to try the lock.
C1_Witness ==
    \E t, u \in Workers : t # u /\ InSlot(t) /\ pc[t] = "wait" /\ pc[u] = "acquire"

\* C2: a validated request that tries the lock while it is held returns the
\* busy error (409, busy=true) in that step, never waiting, and leaves
\* current_job, every job directory and the lock as they were.
C2_BusyLeavesActiveJob ==
    /\ [](\A t \in Workers :
            (pc[t] = "acquire" /\ slice_lock # 0) => ENABLED Acquire(t))
    /\ [][\A t \in Workers :
            (pc[t] = "acquire" /\ slice_lock # 0 /\ pc'[t] # "acquire")
            => /\ pc'[t] = "done"
               /\ resp'[t] = [code |-> 409, kind |-> "busy", busy |-> TRUE]
               /\ job'[t] = 0
               /\ current_job' = current_job
               /\ temp_dir' = temp_dir
               /\ slice_lock' = slice_lock]_vars

\* C2 witness: a request was answered busy while the job holding the slot is
\* still active, its current_job and job directory in place.
C2_Witness ==
    \E t, u \in Workers :
        /\ pc[t] = "done" /\ resp[t].kind = "busy"
        /\ pc[u] = "wait" /\ slice_lock = job[u]
        /\ current_job = [busy |-> TRUE, model |-> Some(req[u].model.filename),
                          started |-> Some(job[u])]
        /\ temp_dir[job[u]].dir

\* C3: when the request of a job whose engine ran has returned (success, no
\* output or timeout), the job directory no longer exists and the slot is no
\* longer held for the job.
C3_CleanAfterCompletion ==
    \A t \in Workers :
        (pc[t] = "done" /\ proc[t] \in { "exited", "killed" })
        => (~temp_dir[job[t]].dir /\ slice_lock # job[t])

\* C4: a failure of the cleanup never reaches the caller and never keeps the
\* slot: once the request of an admitted job has returned, its response is
\* not the internal error and slice_lock is not held for the job.
C4_CleanupFailureReleasesSlot ==
    \A t \in Workers :
        (pc[t] = "done" /\ job[t] # 0)
        => (resp[t].kind # "internal_error" /\ slice_lock # job[t])

\* C5: the cleanup runs exactly once for every admitted job: the lock is
\* never released twice for a request, and it has been released once when
\* the request has returned, also when provisioning failed.
C5_CleanupExactlyOnce ==
    \A t \in Workers :
        /\ releases[t] <= 1
        /\ (pc[t] = "done" /\ job[t] # 0) => releases[t] = 1

AbsentCategories(r) ==
    { c \in Categories : << c, Strip(r[c]) >> \notin profiles }

\* The request fails a precondition check: no (named) model file, a filename
\* that ends in neither .stl nor .3mf in any letter case, a blank profile
\* name, or a referenced profile file that is absent.
FailsPrecondition(r) ==
    \/ ~r.model.present
    \/ r.model.filename
          \notin { << "a", ".", "S", "T", "L" >>, << "b", ".", "3", "m", "f" >> }
    \/ \E c \in Categories : r[c] \in { << >>, << " " >> }
    \/ AbsentCategories(r) # {}

\* C7: a request that fails a precondition check is answered with its error
\* in the very step that validates it, without trying the lock and without
\* changing slice_lock, current_job or any job directory; when the failure is
\* an absent profile, the 404 names exactly the absent profiles.
C7_RejectedWithoutEffect ==
    [][\A t \in Workers :
          (pc[t] = "idle" /\ pc'[t] # "idle" /\ FailsPrecondition(req'[t]))
          => /\ pc'[t] = "done"
             /\ resp'[t].code \in { 400, 404 }
             /\ job'[t] = 0
             /\ slice_lock' = slice_lock
             /\ current_job' = current_job
             /\ temp_dir' = temp_dir
             /\ admissions' = admissions
             /\ (resp'[t].code = 404 <=>
                    (/\ ~(\/ ~req'[t].model.present
                          \/ req'[t].model.filename
                                \notin { << "a", ".", "S", "T", "L" >>,
                                         << "b", ".", "3", "m", "f" >> }
                          \/ \E c \in Categories :
                                req'[t][c] \in { << >>, << " " >> })
                     /\ AbsentCategories(req'[t]) # {}))
             /\ (resp'[t].code = 404 =>
                    { resp'[t].missing[i] : i \in 1..Len(resp'[t].missing) }
                      = { << c, Strip(req'[t][c]) >> :
                             c \in AbsentCategories(req'[t]) })]_vars

\* C7 witness: a request naming two absent profiles was rejected while a job
\* holds the slot.
C7_Witness ==
    \E t, u \in Workers :
        /\ pc[t] = "done" /\ resp[t].kind = "profiles_not_found"
        /\ Len(resp[t].missing) = 2
        /\ InSlot(u)

C9_StatusObservational ==
    /\ [](\A o \in Observers : ENABLED Status(o))
    /\ [][\A o \in Observers :
            (spc'[o] # spc[o] \/ sresp'[o] # sresp[o])
            => UNCHANGED << slice_lock, current_job, temp_dir, profiles,
                            admissions, pc, req, job, result, proc, resp,
                            releases >>]_vars

\* C9 witness: slice_status is between its reads while a job holds the lock
\* and another request is about to try it.
C9_Witness ==
    \E o \in Observers, t \in Workers :
        spc[o] = "started" /\ slice_lock # 0 /\ pc[t] = "acquire"

\* The profiles `a` and `b` of the subdirectory inherit from each other.
TwoCycle(subdir, a, b) ==
    /\ a # b
    /\ a \in DOMAIN index[subdir] /\ b \in DOMAIN index[subdir]
    /\ Get(index[subdir][a], "inherits") = b
    /\ Get(index[subdir][b], "inherits") = a

\* C10: every call of resolve_system_profile returns (no RecursionError),
\* whatever the catalog; for A -> B -> A, resolve(A) is the non-empty
\* document holding the keys of A and of B, A's values winning, and a name
\* met a second time resolves to the empty document.
C10_ResolveTerminatesOnCycle ==
    resolved # None =>
        LET subdir == query[1][1]
            name == query[1][2]
            r == resolved[1]
        IN  /\ ~r.err
            /\ Resolve(subdir, name, { name }, 1) = [err |-> FALSE, doc |-> EmptyDoc]
            /\ \A b \in Names :
                  TwoCycle(subdir, name, b) =>
                     LET da == index[subdir][name]
                         db == index[subdir][b]
                     IN  /\ r.doc # EmptyDoc
                         /\ DOMAIN r.doc = DOMAIN da \cup DOMAIN db
                         /\ \A k \in DOMAIN da : r.doc[k] = da[k]
                         /\ \A k \in DOMAIN db \ DOMAIN da : r.doc[k] = db[k]

\* C10 witness: resolve(A) has returned for a catalog where A and another
\* profile inherit from each other.
C10_Witness ==
    /\ resolved # None
    /\ \E b \in Names : TwoCycle(query[1][1], query[1][2], b)
    /\ ~resolved[1].err

\* The inheritance chain starting at `name`: the profiles reached by following
\* successive inherits references, up to a name that is not bundled or that
\* the chain has already passed.
RECURSIVE InheritanceChain(_, _, _)
InheritanceChain(subdir, name, passed) ==
    IF name \in passed \/ name \notin DOMAIN index[subdir] THEN << >>
    ELSE LET inh == IF "inherits" \in DOMAIN index[subdir][name]
                       THEN index[subdir][name]["inherits"] ELSE ""
         IN  << name >> \o (IF inh = "" THEN << >>
                            ELSE InheritanceChain(subdir, inh, passed \cup { name }))

\* C11: resolve_system_profile returns, for a bundled name, the document
\* whose keys are the union of the keys of the profiles on the inheritance
\* chain starting at the name, each key with the value of the nearest profile
\* on the chain that defines it (child over ancestor); for a name that is not
\* bundled it returns the empty document.
C11_ResolveFlattensChain ==
    resolved # None =>
        LET subdir == query[1][1]
            name == query[1][2]
            r == resolved[1]
            chain == InheritanceChain(subdir, name, {})
        IN  /\ ~r.err
            /\ name \notin DOMAIN index[subdir] => r.doc = EmptyDoc
            /\ name \in DOMAIN index[subdir] =>
                  /\ DOMAIN r.doc
                        = UNION { DOMAIN index[subdir][chain[i]] : i \in 1..Len(chain) }
                  /\ \A k \in DOMAIN r.doc :
                        \E i \in 1..Len(chain) :
                            /\ k \in DOMAIN index[subdir][chain[i]]
                            /\ \A j \in 1..(i - 1) :
                                  k \notin DOMAIN index[subdir][chain[j]]
                            /\ r.doc[k] = index[subdir][chain[i]][k]

\* C11 witness: a resolved chain of three profiles in which the first and the
\* last define a data key that the middle one does not: the result has the
\* first's value for it, and the last's value for a key only the last defines.
C11_Witness ==
    /\ resolved # None
    /\ LET subdir == query[1][1]
           chain == InheritanceChain(subdir, query[1][2], {})
       IN  /\ Len(chain) = 3
           /\ "a" \in DOMAIN index[subdir][chain[1]]
           /\ "a" \notin DOMAIN index[subdir][chain[2]]
           /\ "a" \in DOMAIN index[subdir][chain[3]]
           /\ "b" \in DOMAIN index[subdir][chain[3]]
           /\ "b" \notin DOMAIN index[subdir][chain[1]]
           /\ resolved[1].doc["a"] = chain[1]
           /\ resolved[1].doc["b"] = chain[3]

\* The type the engine expects for a category.
EngineType(category) ==
    CASE category = "printer" -> "machine"
      [] category = "process" -> "process"
      [] category = "filament" -> "filament"

\* The flattened bundled profile an uploaded document of the category
\* inherits from: the empty document when it declares none (or an empty
\* name) or when the name is not bundled in the category's subdirectory.
BaseOf(doc, category) ==
    IF "inherits" \in DOMAIN doc /\ doc["inherits"] # ""
       THEN resolve_system_profile(
                CASE category = "printer" -> "machine"
                  [] category = "process" -> "process"
                  [] category = "filament" -> "filament",
                doc["inherits"]).doc
       ELSE EmptyDoc

\* The "from" stamp of a normalized document: the document's own marker when
\* it is a recognized one, else the default user marker.
FromStamp(doc) ==
    IF "from" \in DOMAIN doc /\ doc["from"] \in { "system", "User", "user" }
       THEN doc["from"] ELSE "User"

\* C12: ensure_orca_metadata returns, for every document and category, a
\* document whose type is the engine's type for the category, whatever type
\* the input or the merged base carries.
C12_TypeForced ==
    normalized # None =>
        /\ ~normalized[1].err
        /\ "type" \in DOMAIN normalized[1].doc
        /\ normalized[1].doc["type"] = EngineType(norm_query[1].category)

\* C12 witness: a printer document of type "x" was merged onto a base that
\* carries type "machine_model".
C12_Witness ==
    /\ normalized # None
    /\ norm_query[1].category = "printer"
    /\ Get(norm_query[1].doc, "type") = "x"
    /\ Get(BaseOf(norm_query[1].doc, "printer"), "type") = "machine_model"
    /\ normalized[1].doc["type"] = "machine"

\* C13: when the input declares inherits, the returned document carries the
\* input's own inherits value, never that of the base or of an ancestor.
C13_KeepsDeclaredInherits ==
    (normalized # None /\ "inherits" \in DOMAIN norm_query[1].doc) =>
        /\ ~normalized[1].err
        /\ "inherits" \in DOMAIN normalized[1].doc
        /\ normalized[1].doc["inherits"] = norm_query[1].doc["inherits"]

\* C13 witness: the input inherits from "A", the merged base carries the
\* inherits value "B" of "A", and the result names "A".
C13_Witness ==
    /\ normalized # None
    /\ Get(norm_query[1].doc, "inherits") = "A"
    /\ Get(BaseOf(norm_query[1].doc, norm_query[1].category), "inherits") = "B"
    /\ Get(BaseOf(norm_query[1].doc, norm_query[1].category), "a") = "B"
    /\ normalized[1].doc["inherits"] = "A"
    /\ normalized[1].doc["a"] = "B"

\* C14: when the declared inherits resolves to a non-empty base, the result
\* has the keys of the base and of the document with the type and from
\* stamps; the document's own value, the forced type and the from stamp win
\* over the base, and every other key of the base keeps the base's value.
C14_DocumentOverBase ==
    normalized # None =>
        LET doc == norm_query[1].doc
            category == norm_query[1].category
            base == BaseOf(doc, category)
            out == normalized[1].doc
        IN  base # EmptyDoc =>
              /\ ~normalized[1].err
              /\ DOMAIN out = DOMAIN base \cup DOMAIN doc \cup { "type", "from" }
              /\ out["type"] = EngineType(category)
              /\ out["from"] = FromStamp(doc)
              /\ \A k \in DOMAIN doc \ { "type", "from" } : out[k] = doc[k]
              /\ \A k \in DOMAIN base \ (DOMAIN doc \cup { "type", "from" }) :
                    out[k] = base[k]

\* C14 witness: a document with a data key and no "from" was merged onto a
\* base that carries the same data key, a type and the marker "system".
C14_Witness ==
    /\ normalized # None
    /\ LET doc == norm_query[1].doc
           base == BaseOf(doc, norm_query[1].category)
       IN  /\ "a" \in DOMAIN doc /\ "from" \notin DOMAIN doc
           /\ "name" \notin DOMAIN doc
           /\ Get(base, "a") \in { "A", "B" }
           /\ Get(base, "from") = "system"
           /\ normalized[1].doc["a"] = "u"
           /\ normalized[1].doc["from"] = "User"
           /\ normalized[1].doc["name"] = base["name"]

\* C15: when the input declares no inherits, or one that resolves to
\* nothing, ensure_orca_metadata raises nothing and returns the input with
\* the forced type and the from stamp (the input's marker kept when it is a
\* recognized one): no other key is added, removed or changed.
C15_UnresolvedLeavesDocument ==
    normalized # None =>
        LET doc == norm_query[1].doc
            category == norm_query[1].category
            out == normalized[1].doc
        IN  BaseOf(doc, category) = EmptyDoc =>
              /\ ~normalized[1].err
              /\ DOMAIN out = DOMAIN doc \cup { "type", "from" }
              /\ out["type"] = EngineType(category)
              /\ out["from"] = FromStamp(doc)
              /\ \A k \in DOMAIN doc \ { "type", "from" } : out[k] = doc[k]

\* C15 witness: a document from "system" that inherits from a name not
\* bundled in its category, while other profiles are bundled, was returned
\* with its marker, its inherits and its data key.
C15_Witness ==
    /\ normalized # None
    /\ LET doc == norm_query[1].doc
       IN  /\ Get(doc, "inherits") = "C" /\ Get(doc, "from") = "system"
           /\ "a" \in DOMAIN doc
           /\ DOMAIN index["machine"] = { "A", "B" }
           /\ norm_query[1].category = "printer"
           /\ normalized[1].doc = [doc EXCEPT !["type"] = "machine"]
           /\ "type" \in DOMAIN doc /\ doc["type"] = "x"

\* C20: normalizing again the document a normalization returned, in the same
\* category and under the same catalog, returns the same document (same keys
\* and values) and raises nothing.
C20_NormalizeIdempotent ==
    [][(/\ normalized # None
        /\ ~normalized[1].err
        /\ norm_query' # None
        /\ norm_query'[1].category = norm_query[1].category
        /\ norm_query'[1].doc = normalized[1].doc
        /\ index' = index)
       => normalized' = normalized]_vars

\* C20 witness: a document merged onto a chain of two bundled profiles was
\* normalized again: the call's input is the document it returned.
C20_Witness ==
    /\ normalized # None
    /\ norm_query[1].doc = normalized[1].doc
    /\ Get(normalized[1].doc, "inherits") = "A"
    /\ Get(normalized[1].doc, "name") = "A"
    /\ "A" \in DOMAIN index["machine"]
    /\ Get(index["machine"]["A"], "inherits") = "B"
    /\ "B" \in DOMAIN index["machine"]
    /\ normalized[1].doc["type"] = "machine"

\* C16: after any sequence of uploads, replacements, renames and deletions
\* from the empty store, the name of every stored profile is its own
\* sanitized form, and the store holds one content per category and name.
C16_StoredNamesSanitized ==
    /\ \A p \in profiles : sanitize_profile_name(p[2]) = p[2]
    /\ DOMAIN profile_bytes = profiles

\* C17: a create never overwrites: whenever upload_profile writes, no file
\* is at its path, and when it answers success the stored content is the
\* one it wrote; so of the concurrent creates of one name at most one
\* succeeds and the others are answered with the conflict error.
C17_CreateNeverOverwrites ==
    /\ [][\A c \in Clients :
            (cpc[c] = "write" /\ creq[c][1].op = "upload" /\ cpc'[c] = "info")
            => << creq[c][1].category, cname[c][1] >> \notin profiles]_vars
    /\ [][\A c \in Clients :
            (cpc[c] = "info" /\ creq[c][1].op = "upload" /\ cresp'[c].code = 201)
            => profile_bytes[<< creq[c][1].category, cname[c][1] >>]
                 = cdata[c][1]]_vars

\* C18: the slot is held from admission through the end of the cleanup:
\* whenever slice_lock is free, current_job is fully cleared and no admitted
\* request is between admission and the end of its cleanup; busy is true
\* only while the lock is held; and the last step of every admitted request
\* is the release of the lock.
C18_SlotHeldThroughCleanup ==
    /\ [](slice_lock = 0 =>
            /\ current_job = [busy |-> FALSE, model |-> << >>, started |-> << >>]
            /\ \A t \in Workers : ~InSlot(t))
    /\ [](current_job.busy => slice_lock # 0)
    /\ [][\A t \in Workers :
            (job[t] # 0 /\ pc[t] # "done" /\ pc'[t] = "done")
            => (pc[t] = "release" /\ slice_lock = job[t] /\ slice_lock' = 0)]_vars

\* C19: when slice_status answers busy=true, the model and the start time it
\* reports are not null, and they are those of one job: the model of the
\* request whose start time is reported.
C19_StatusReportsOneJob ==
    [][\A o \in Observers :
          (spc[o] = "started" /\ spc'[o] = "idle")
          => LET answer == [busy |-> TRUE, model |-> sresp[o][1],
                            started |-> current_job.started]
             IN  /\ answer.model # << >>
                 /\ answer.started # << >>
                 /\ \A t \in Workers :
                       (job[t] # 0 /\ answer.started = << job[t] >>)
                       => answer.model = << req[t].model.filename >>]_vars

====
